---- MODULE Spec2Model ----
(***************************************************************************)
(* Sential CLI (src/cli/main.py): the inventory classification and         *)
(* aggregation pipeline.  select_scope discovers module roots, the         *)
(* classifier of get_final_inventory_file splits the scoped file stream    *)
(* into a language bucket and a context bucket (two scratch files),        *)
(* generate_tags_jsonl writes the context records and then, through        *)
(* run_ctags, the symbol records into one output artifact.                 *)
(*                                                                         *)
(* Paths and file names are strings; lower-casing, name, suffix, stem and  *)
(* parent are computed character by character as pathlib and str do.       *)
(***************************************************************************)
EXTENDS Integers, Sequences, FiniteSets, TLC

(***************************************************************************)
(* Strings and paths                                                       *)
(***************************************************************************)

\* str.lower() on one character.
LowerChar(c) ==
    CASE c = "A" -> "a" [] c = "B" -> "b" [] c = "C" -> "c" [] c = "D" -> "d"
      [] c = "E" -> "e" [] c = "F" -> "f" [] c = "G" -> "g" [] c = "H" -> "h"
      [] c = "I" -> "i" [] c = "J" -> "j" [] c = "K" -> "k" [] c = "L" -> "l"
      [] c = "M" -> "m" [] c = "N" -> "n" [] c = "O" -> "o" [] c = "P" -> "p"
      [] c = "Q" -> "q" [] c = "R" -> "r" [] c = "S" -> "s" [] c = "T" -> "t"
      [] c = "U" -> "u" [] c = "V" -> "v" [] c = "W" -> "w" [] c = "X" -> "x"
      [] c = "Y" -> "y" [] c = "Z" -> "z" [] OTHER -> c

RECURSIVE Lower(_)
\* str.lower(): every character lower-cased, the rest kept.
Lower(s) ==
    IF Len(s) = 0 THEN ""
    ELSE LowerChar(SubSeq(s, 1, 1)) \o Lower(SubSeq(s, 2, Len(s)))

RECURSIVE RFind(_, _, _)
\* str.rfind(c) over s[1..i]: the last position of character c, 0 when absent.
RFind(s, c, i) ==
    IF i = 0 THEN 0
    ELSE IF SubSeq(s, i, i) = c THEN i
    ELSE RFind(s, c, i - 1)

RECURSIVE Contains(_, _)
\* `sub in s` for strings.
Contains(s, sub) ==
    IF Len(s) < Len(sub) THEN FALSE
    ELSE IF SubSeq(s, 1, Len(sub)) = sub THEN TRUE
    ELSE Contains(SubSeq(s, 2, Len(s)), sub)

RECURSIVE CountChar(_, _)
\* The number of occurrences of character c in s.
CountChar(s, c) ==
    IF Len(s) = 0 THEN 0
    ELSE (IF SubSeq(s, 1, 1) = c THEN 1 ELSE 0) + CountChar(SubSeq(s, 2, Len(s)), c)

\* Path(p).name: the last component of a relative, normalised path.
Name(p) == SubSeq(p, RFind(p, "/", Len(p)) + 1, Len(p))

\* str(Path(p).parent): the directory of the path, "." for a top-level file.
Parent(p) ==
    IF RFind(p, "/", Len(p)) = 0 THEN "."
    ELSE SubSeq(p, 1, RFind(p, "/", Len(p)) - 1)

\* Path(p).suffix: from the last dot of the name, unless that dot is the
\* first or the last character of the name.
Suffix(p) ==
    LET n == Name(p)
        i == RFind(n, ".", Len(n))
    IN  IF 1 < i /\ i < Len(n) THEN SubSeq(n, i, Len(n)) ELSE ""

\* Path(p).stem: the name without its suffix.
Stem(p) ==
    LET n == Name(p)
        i == RFind(n, ".", Len(n))
    IN  IF 1 < i /\ i < Len(n) THEN SubSeq(n, 1, i - 1) ELSE n

\* len(Path(p).parents): the number of path segments of a relative path.
Depth(p) == CountChar(p, "/") + 1

(***************************************************************************)
(* Heuristic tables (src/cli/constants.py)                                 *)
(***************************************************************************)

\* SupportedLanguages: the enum's values.
SupportedLanguages == {"Python", "JavaScript/TypeScript", "Java", "C#", "GO", "C/C++"}

\* LANGUAGES_HEURISTICS[language]["manifests"], the names as stored.
Manifests(lang) ==
    CASE lang = "Python" ->
           {"requirements.txt", "pyproject.toml", "setup.py", "Pipfile", "tox.ini"}
      [] lang = "JavaScript/TypeScript" ->
           {"package.json", "deno.json", "yarn.lock", "pnpm-lock.yaml",
            "next.config.js", "vite.config.js", "tsconfig.json"}
      [] lang = "Java" ->
           {"pom.xml", "build.gradle", "build.gradle.kts", "settings.gradle",
            "mvnw", "gradlew"}
      [] lang = "C#" ->
           {".csproj", ".sln", ".fsproj", ".vbproj", "global.json", "NuGet.config"}
      [] lang = "GO" ->
           {"go.mod", "go.sum", "go.work", "main.go"}
      [] lang = "C/C++" ->
           {"CMakeLists.txt", "Makefile", "makefile", "configure.ac", "meson.build",
            "conanfile.txt", "vcpkg.json", ".gitmodules"}

\* LANGUAGES_HEURISTICS[language]["extensions"].
Extensions(lang) ==
    CASE lang = "Python" -> {".py", ".pyi"}
      [] lang = "JavaScript/TypeScript" ->
           {".js", ".jsx", ".ts", ".tsx", ".mjs", ".cjs", ".vue", ".svelte"}
      [] lang = "Java" -> {".java", ".kt", ".scala", ".groovy"}
      [] lang = "C#" -> {".cs", ".fs", ".vb", ".cshtml", ".razor"}
      [] lang = "GO" -> {".go"}
      [] lang = "C/C++" ->
           {".c", ".cpp", ".h", ".hpp", ".cc", ".hh", ".cxx", ".hxx", ".m", ".mm"}

\* UNIVERSAL_CONTEXT_FILES: the ordered tuple of universal context filenames
\* that main.py imports from constants; the revision of constants.py at hand
\* does not define it, so a representative tuple stands for it.
UNIVERSAL_CONTEXT_FILES == <<"docker-compose.yml", "Makefile">>

\* CTAGS_KINDS: the allow-list of symbol kinds main.py imports from constants.
CTAGS_KINDS == {"function", "class", "method"}

\* The elements of a tuple, as a set.
Range(t) == {t[i] : i \in 1..Len(t)}

(***************************************************************************)
(* Module discovery and the classifier, one path at a time                 *)
(***************************************************************************)

\* get_focused_inventory: the test `file_name.lower() in manifests`.
IsManifest(lang, p) == Lower(Name(p)) \in Manifests(lang)

\* get_final_inventory_file: tier_1_set.
Tier1Set(lang) == Range(UNIVERSAL_CONTEXT_FILES) \cup Manifests(lang)

\* get_final_inventory_file: the extension rule (SIEVE 2).
ExtensionRule(lang, p) == Lower(Suffix(p)) \in Extensions(lang)

\* get_final_inventory_file: the elif condition of the context rule.
ContextRule(lang, p) ==
    LET file_name == Lower(Name(p))
    IN  \/ file_name \in Tier1Set(lang)
        \/ Contains(file_name, "readme")
        \/ Lower(Stem(p)) = "readme"
        \/ Lower(Suffix(p)) = ".md"

\* The classifier with the two rules tried in the other order.
BucketContextFirst(lang, p) ==
    IF ContextRule(lang, p) THEN "context"
    ELSE IF ExtensionRule(lang, p) THEN "language"
    ELSE "dropped"

\* The classifier keeping every path that fails the extension rule.
BucketNoDrop(lang, p) ==
    IF ExtensionRule(lang, p) THEN "language" ELSE "context"

\* get_final_inventory_file: the bucket one streamed path goes to.
Bucket(lang, p) ==
    IF ExtensionRule(lang, p) THEN "language"
    ELSE IF ContextRule(lang, p) THEN "context"
    ELSE "dropped"

\* git ls-files -- scopes: whether path p lies under one of the scopes (no
\* pathspec at all lists every file, "." is the repository root).
UnderScope(scopes, p) ==
    \/ scopes = <<>>
    \/ \E i \in 1..Len(scopes) :
          \/ scopes[i] = "."
          \/ scopes[i] = p
          \/ /\ Len(p) > Len(scopes[i])
             /\ SubSeq(p, 1, Len(scopes[i]) + 1) = scopes[i] \o "/"

RECURSIVE ScopedStream(_, _)
\* The file stream of the scoped listing: the repository's files under the
\* scopes, in listing order.
ScopedStream(files, scopes) ==
    IF files = <<>> THEN <<>>
    ELSE (IF UnderScope(scopes, Head(files)) THEN <<Head(files)>> ELSE <<>>)
         \o ScopedStream(Tail(files), scopes)

\* The characters of paths, in code-point order.
AsciiOrder == "-./0123456789ABCDEFGHIJKLMNOPQRSTUVWXYZ_abcdefghijklmnopqrstuvwxyz"

\* The rank of a character in code-point order.
Rank(c) == RFind(AsciiOrder, c, Len(AsciiOrder))

RECURSIVE StrLess(_, _)
\* a < b for strings: code point by code point, a proper prefix first.
StrLess(a, b) ==
    IF Len(b) = 0 THEN FALSE
    ELSE IF Len(a) = 0 THEN TRUE
    ELSE IF SubSeq(a, 1, 1) # SubSeq(b, 1, 1)
         THEN Rank(SubSeq(a, 1, 1)) < Rank(SubSeq(b, 1, 1))
    ELSE StrLess(SubSeq(a, 2, Len(a)), SubSeq(b, 2, Len(b)))

RECURSIVE Sorted(_)
\* sorted() of a set of strings.
Sorted(S) ==
    IF S = {} THEN <<>>
    ELSE LET m == CHOOSE x \in S : \A y \in S \ {x} : StrLess(x, y)
         IN  <<m>> \o Sorted(S \ {m})

\* get_focused_inventory, collected into a set by select_scope: the parent
\* directories the generator yields.
FocusedInventory(lang, files) ==
    {Parent(files[i]) : i \in {j \in 1..Len(files) : IsManifest(lang, files[j])}}

\* The sequences without repetition over a set.
RECURSIVE Arrangements(_)
Arrangements(S) ==
    {<<>>} \cup UNION {{<<x>> \o t : t \in Arrangements(S \ {x})} : x \in S}

\* select_scope: the list returned for a checkbox answer.
ResolveSelection(cands, selection) ==
    IF "ALL" \in Range(selection) THEN cands ELSE selection

\* ui/prompts.py select_scope: scope_path.relative_to(Path(p)) does not raise,
\* scope_path is p or lies under p.
IsRelativeTo(scope_path, p) ==
    \/ p = "."
    \/ scope_path = p
    \/ /\ Len(scope_path) > Len(p)
       /\ SubSeq(scope_path, 1, Len(p) + 1) = p \o "/"

RECURSIVE FilterNested(_, _)
\* ui/prompts.py select_scope: the loop over the selection, in the order the
\* prompt returned it; a path is kept unless it is relative to a path already
\* kept.
FilterNested(filtered_selection, selection) ==
    IF selection = <<>> THEN filtered_selection
    ELSE LET scope_path == Head(selection)
             is_parent_in_filtered_selection ==
                 \E i \in 1..Len(filtered_selection) :
                     IsRelativeTo(scope_path, filtered_selection[i])
         IN  FilterNested(IF is_parent_in_filtered_selection THEN filtered_selection
                          ELSE Append(filtered_selection, scope_path),
                          Tail(selection))

\* ui/prompts.py select_scope: the list returned for a checkbox answer.
ResolveSelectionFiltered(selection) ==
    IF "." \in Range(selection) THEN <<".">> ELSE FilterNested(<<>>, selection)

(***************************************************************************)
(* Context emission and symbol aggregation, the pure parts                 *)
(***************************************************************************)

\* The permutations of a set: the orders in which iterating an unordered
\* collection (frozenset, set) may yield its elements.
RECURSIVE Perms(_)
Perms(S) ==
    IF S = {} THEN {<<>>}
    ELSE UNION {{<<x>> \o t : t \in Perms(S \ {x})} : x \in S}

RECURSIVE Dedup(_, _)
\* list(dict.fromkeys(t)): t without the elements already in seen, the first
\* occurrence of each kept.
Dedup(t, seen) ==
    IF t = <<>> THEN <<>>
    ELSE IF Head(t) \in seen THEN Dedup(Tail(t), seen)
    ELSE <<Head(t)>> \o Dedup(Tail(t), seen \cup {Head(t)})

\* generate_tags_jsonl: the values ordered_candidates may take, one for each
\* iteration order of the manifests frozenset.
OrderedCandidates(lang) ==
    {Dedup(UNIVERSAL_CONTEXT_FILES \o t, {}) : t \in Perms(Manifests(lang))}

\* The candidate match without lower-casing either side.
MatchesCandidateExact(p, candidate) == Name(p) = candidate

\* generate_tags_jsonl: whether a pool path matches a candidate name.
MatchesCandidate(p, candidate) == Lower(Name(p)) = Lower(candidate)

\* The elements of a set in any order, the sort by depth left out.
InAnyOrder(S) == Perms(S)

\* list.sort / sorted with key len(p.parents) over the elements of a set: the
\* sort is stable and the set's iteration order is arbitrary, so any order
\* with non-decreasing depth may result.
SortedByDepth(S) ==
    {t \in Perms(S) : \A i, j \in 1..Len(t) : i < j => Depth(t[i]) <= Depth(t[j])}

\* read_file_content: limit for tier 1.
Limit == 100000

\* The empty string read_file_content returns for a skipped file.
EmptyContent == [chars |-> 0, notice |-> ""]

\* read_file_content: the notice appended to a truncated content.
Notice(limit) ==
    "\n\n... [TRUNCATED BY SENTIAL: File exceeded " \o ToString(limit) \o " chars] ..."

\* Path.is_file() on a file in state f, when stat does not raise: a missing
\* file is no file, and neither is one stat cannot reach when the call
\* swallows the error.
is_file(f) == f.kind \notin {"missing", "inaccessible"}

\* What Path.is_file() may do on a file in state f: answer, or raise.  stat
\* on a path under a directory without search permission fails with EACCES,
\* which is_file re-raises as PermissionError (it swallows only ENOENT,
\* ENOTDIR, EBADF and ELOOP) on the interpreters that do not treat every
\* OSError as "no file".
IsFileOutcomes(f) ==
    IF f.kind = "inaccessible" THEN {"answer", "raise"} ELSE {"answer"}

\* is_binary_file: a NUL byte or undecodable bytes in the first 1024 bytes,
\* or an OSError on opening the file.
is_binary_file(f) == f.kind \in {"binary", "undecodable", "unopenable"}

\* f.read(limit + 1): the number of characters read from a text of f.len.
CharsRead(f) == IF f.len < Limit + 1 THEN f.len ELSE Limit + 1

\* read_file_content with the notice appended from limit characters on.
read_file_contentFromLimit(f) ==
    IF ~is_file(f) \/ is_binary_file(f) THEN EmptyContent
    ELSE IF CharsRead(f) >= Limit THEN [chars |-> Limit, notice |-> Notice(Limit)]
    ELSE [chars |-> CharsRead(f), notice |-> ""]

\* read_file_content(path, True) on a file in state f, when is_file does not
\* raise: a text of f.len characters is read up to Limit + 1 characters and
\* cut to its first Limit characters with the notice appended when more were
\* read; a file that is no file, is binary or cannot be opened gives "".
read_file_content(f) ==
    IF ~is_file(f) \/ is_binary_file(f) THEN EmptyContent
    ELSE IF CharsRead(f) > Limit THEN [chars |-> Limit, notice |-> Notice(Limit)]
    ELSE [chars |-> CharsRead(f), notice |-> ""]

\* `if content:` on what read_file_content returned.
Truthy(content) == content.chars > 0 \/ content.notice # ""

\* generate_tags_jsonl: ctx_record.
CtxRecord(p, content) == [path |-> p, type |-> "context_file", content |-> content]

\* run_ctags: record.
TagRecord(p, tags) == [path |-> p, tags |-> tags]

\* run_ctags: a parsed line passes the filter
\* `not path or not name or kind not in CTAGS_KINDS`.
Accepted(line) ==
    /\ line.json = "object"
    /\ line.path # ""
    /\ line.name # ""
    /\ line.kind \in CTAGS_KINDS

\* run_ctags: the tag string f"{kind} {name}".
TagOf(line) == line.kind \o " " \o line.name

(***************************************************************************)
(* State                                                                   *)
(***************************************************************************)

VARIABLES
    language,            \* the selected SupportedLanguages value
    repo,                \* what git ls-files lists for the repository, in order
    fs,                  \* the state of each listed file on disk
    pc,                  \* where the run is
    candidates,          \* select_scope: candidates
    scopes,              \* select_scope's result
    todo,                \* the classifier: the part of the scoped stream not yet read
    lang_file,           \* scratch file of the language bucket
    context_file,        \* scratch file of the context bucket
    lang_file_count,
    ctx_file_count,
    artifact,            \* the file at output_path
    ordered_candidates,
    pool,                \* valid_context_path_objs
    cidx,                \* position of the priority pass in ordered_candidates
    matches,             \* the sorted matches not yet written
    leftovers,           \* the sorted leftovers not yet written
    tag_menu,            \* the lines the symbol extractor may print
    tag_budget,          \* how many lines it may still print
    tag_lines,           \* the lines read from the symbol extractor so far
    current_file_path,   \* run_ctags: "" stands for None
    current_tags,
    success,
    returned,            \* the path generate_tags_jsonl returned, "" for none
    prompted,            \* select_scope: "no" prompt, or the answer had "all" or only "some"
    previous             \* the context records of an earlier run on the same bucket

inputs == <<language, repo, fs>>
scopeVars == <<candidates, scopes>>
classVars == <<todo, lang_file, context_file, lang_file_count, ctx_file_count>>
ctxVars == <<ordered_candidates, pool, cidx, matches, leftovers>>
tagVars == <<tag_menu, tag_budget, tag_lines, current_file_path, current_tags>>
endVars == <<success, returned>>
histVars == <<prompted, previous>>
vars == <<inputs, histVars, pc, scopeVars, classVars, artifact, ctxVars, tagVars, endVars>>

\* A file that does not exist.
Absent == [exists |-> FALSE, lines |-> <<>>]

\* A file just created or truncated.
Fresh == [exists |-> TRUE, lines |-> <<>>]

\* The artifact a previous run left at the fixed output path.
Stale == [exists |-> TRUE, lines |-> <<[stale |-> TRUE]>>]

\* f.write(line + "\n") on an existing file.
Write(f, line) == [f EXCEPT !.lines = Append(@, line)]

(***************************************************************************)
(* Bounds and input universes                                              *)
(***************************************************************************)

\* The longest repository listing explored by the inventory specification.
MaxFiles == 3

\* The most lines the symbol extractor prints in a full run.
RunTagLines == 2

\* The most lines the symbol extractor prints when run_ctags is explored alone.
MaxTagLines == 4

\* The paths the inventory specification lists repositories from.
Catalogue ==
    {"setup.py", "svc/Pipfile", "svc/tox.ini", "app/Main.PY", "README.py",
     "docs/OldReadme.txt", "notes.md", "LICENSE", "Makefile", "lib/CMakeLists.txt",
     "Requirements.TXT"}

\* The languages the inventory specification explores.
InventoryLanguages == {"Python", "C/C++"}

\* A line of the symbol extractor that parses to a JSON object with the given
\* path, kind and name ("" for a missing or empty field).
TagLine(p, k, n) == [json |-> "object", path |-> p, kind |-> k, name |-> n]

\* A line that is not JSON (json.loads raises JSONDecodeError).
InvalidLine == [json |-> "invalid", path |-> "", kind |-> "", name |-> ""]

\* A line that is JSON but not an object (a number, a list, a string).
NonObjectLine == [json |-> "nonobject", path |-> "", kind |-> "", name |-> ""]

\* The lines the symbol extractor may print when run_ctags is explored alone.
TagLines ==
    {TagLine(p, k, n) : p \in {"a.go", "b.go"}, k \in {"function", "variable"},
                        n \in {"f", "g"}}
    \cup {TagLine("", "function", "f"), TagLine("a.go", "function", ""),
          InvalidLine, NonObjectLine}

\* The lines the symbol extractor may print in the full-run specification.
RunTagMenu ==
    {TagLine("main.go", "function", "f"), TagLine("svc/b.go", "method", "g"),
     InvalidLine, NonObjectLine}

\* The state of a file on disk when read_file_content gets to it.
TextFile(n) == [kind |-> "text", len |-> n]
BinaryFile == [kind |-> "binary", len |-> 1]
MissingFile == [kind |-> "missing", len |-> 0]
UndecodableFile == [kind |-> "undecodable", len |-> 1]
UnopenableFile == [kind |-> "unopenable", len |-> 1]
InaccessibleFile == [kind |-> "inaccessible", len |-> 1]

RECURSIVE Listings(_, _)
\* The listings without repetition of at most n paths of S.
Listings(S, n) ==
    IF n = 0 THEN {<<>>}
    ELSE {<<>>} \cup UNION {{<<x>> \o t : t \in Listings(S \ {x}, n - 1)} : x \in S}

(***************************************************************************)
(* Initial states                                                          *)
(***************************************************************************)

\* No earlier run on the same bucket.
NoRun == [ran |-> FALSE, records |-> <<>>]

\* The state every run starts from, but for its inputs.
Start ==
    /\ pc = "select_scope"
    /\ candidates = <<>>
    /\ scopes = <<>>
    /\ todo = <<>>
    /\ lang_file = Absent
    /\ context_file = Absent
    /\ lang_file_count = 0
    /\ ctx_file_count = 0
    /\ ordered_candidates = <<>>
    /\ pool = {}
    /\ cidx = 0
    /\ matches = <<>>
    /\ leftovers = <<>>
    /\ tag_lines = <<>>
    /\ current_file_path = ""
    /\ current_tags = <<>>
    /\ success = FALSE
    /\ returned = ""
    /\ prompted = "no"
    /\ previous = NoRun

(***************************************************************************)
(* select_scope                                                            *)
(***************************************************************************)

\* select_scope with no candidate, were it to fall back on the root path
\* instead of leaving.
SelectScopeNoneFallsBack ==
    /\ pc = "select_scope"
    /\ FocusedInventory(language, repo) = {}
    /\ candidates' = <<>>
    /\ scopes' = <<".">>
    /\ pc' = "classify_open"
    /\ UNCHANGED <<inputs, histVars, classVars, artifact, ctxVars, tagVars, endVars>>

\* select_scope with no candidate: the message and typer.Exit.
SelectScopeNone ==
    /\ pc = "select_scope"
    /\ FocusedInventory(language, repo) = {}
    /\ candidates' = <<>>
    /\ pc' = "NoCandidates"
    /\ UNCHANGED <<inputs, histVars, scopes, classVars, artifact, ctxVars, tagVars, endVars>>

\* select_scope with one candidate: returned without a prompt.
SelectScopeOne ==
    /\ pc = "select_scope"
    /\ Cardinality(FocusedInventory(language, repo)) = 1
    /\ candidates' = Sorted(FocusedInventory(language, repo))
    /\ scopes' = <<candidates'[1]>>
    /\ pc' = "classify_open"
    /\ UNCHANGED <<inputs, histVars, classVars, artifact, ctxVars, tagVars, endVars>>

\* select_scope with several candidates: the checkbox prompt answers with any
\* choice of the values "ALL" and the candidates, in the order ticked.
SelectScopePrompt ==
    /\ pc = "select_scope"
    /\ Cardinality(FocusedInventory(language, repo)) > 1
    /\ candidates' = Sorted(FocusedInventory(language, repo))
    /\ \E selection \in Arrangements({"ALL"} \cup FocusedInventory(language, repo)) :
          /\ scopes' = ResolveSelection(candidates', selection)
          /\ prompted' = IF "ALL" \in Range(selection) THEN "all" ELSE "some"
    /\ pc' = "classify_open"
    /\ UNCHANGED <<inputs, previous, classVars, artifact, ctxVars, tagVars, endVars>>

\* select_scope of ui/prompts.py with several candidates: the choices are the
\* candidates, the root shown as "Select All"; the answer is any choice of
\* them, in the order ticked.
SelectScopePromptFiltered ==
    /\ pc = "select_scope"
    /\ Cardinality(FocusedInventory(language, repo)) > 1
    /\ candidates' = Sorted(FocusedInventory(language, repo))
    /\ \E selection \in Arrangements(FocusedInventory(language, repo)) :
          /\ scopes' = ResolveSelectionFiltered(selection)
          /\ prompted' = IF "." \in Range(selection) THEN "all" ELSE "some"
    /\ pc' = "classify_open"
    /\ UNCHANGED <<inputs, previous, classVars, artifact, ctxVars, tagVars, endVars>>

(***************************************************************************)
(* get_final_inventory_file                                                *)
(***************************************************************************)

\* The two NamedTemporaryFile(delete=False) are created and the scoped
\* listing is started.
ClassifyOpen ==
    /\ pc = "classify_open"
    /\ lang_file' = Fresh
    /\ context_file' = Fresh
    /\ lang_file_count' = 0
    /\ ctx_file_count' = 0
    /\ todo' = ScopedStream(repo, scopes)
    /\ pc' = "classify"
    /\ UNCHANGED <<inputs, histVars, scopeVars, artifact, ctxVars, tagVars, endVars>>

\* One iteration of `for file_path in process.stdout`.  The line read keeps
\* its newline, so each write leaves the path and an empty line.
ClassifyLine ==
    /\ pc = "classify"
    /\ todo # <<>>
    /\ LET file_path == Head(todo)
           bucket == Bucket(language, file_path)
       IN  /\ lang_file' = IF bucket = "language"
                           THEN Write(Write(lang_file, file_path), "")
                           ELSE lang_file
           /\ lang_file_count' = IF bucket = "language"
                                 THEN lang_file_count + 1 ELSE lang_file_count
           /\ context_file' = IF bucket = "context"
                              THEN Write(Write(context_file, file_path), "")
                              ELSE context_file
           /\ ctx_file_count' = IF bucket = "context"
                                THEN ctx_file_count + 1 ELSE ctx_file_count
    /\ todo' = Tail(todo)
    /\ UNCHANGED <<inputs, histVars, pc, scopeVars, artifact, ctxVars, tagVars, endVars>>

\* The stream ends; the paths of the two files and the counts are returned.
ClassifyClose ==
    /\ pc = "classify"
    /\ todo = <<>>
    /\ pc' = "classified"
    /\ UNCHANGED <<inputs, histVars, scopeVars, classVars, artifact, ctxVars, tagVars, endVars>>

\* An exception or KeyboardInterrupt outside generate_tags_jsonl's try (in
\* select_scope, in get_final_inventory_file, or in generate_tags_jsonl
\* before the try): nothing catches it, no cleanup runs.
Uncaught ==
    /\ pc \in {"select_scope", "classify_open", "classify", "classified"}
    /\ pc' = "Crashed"
    /\ UNCHANGED <<inputs, histVars, scopeVars, classVars, artifact, ctxVars, tagVars, endVars>>

(***************************************************************************)
(* generate_tags_jsonl                                                     *)
(***************************************************************************)

\* output_path: the fixed name in the system temp directory.
OutputPath == "sential_payload.jsonl"

\* The statements before the try: ordered_candidates is built, in whatever
\* order the manifests frozenset iterates.
GenStart ==
    /\ pc = "classified"
    /\ ordered_candidates' \in OrderedCandidates(language)
    /\ success' = FALSE
    /\ pc' = "try"
    /\ UNCHANGED <<inputs, histVars, scopeVars, classVars, artifact, pool, cidx, matches,
                   leftovers, tagVars, returned>>

\* open(output_path, "w") creates or truncates the artifact, and the context
\* bucket is loaded into the set valid_context_path_objs, empty lines left out.
EmitOpen ==
    /\ pc = "try"
    /\ artifact' = Fresh
    /\ pool' = {context_file.lines[i] :
                   i \in {j \in 1..Len(context_file.lines) : context_file.lines[j] # ""}}
    /\ cidx' = 1
    /\ matches' = <<>>
    /\ pc' = "priority"
    /\ UNCHANGED <<inputs, histVars, scopeVars, classVars, ordered_candidates, leftovers,
                   tagVars, endVars>>

\* The finally without `if not success: output_path.unlink()`.
CleanupKeepsArtifact ==
    /\ lang_file' = Absent
    /\ context_file' = Absent
    /\ artifact' = artifact
    /\ pc' = "Failed"

\* The except clauses and the finally of a run that did not succeed: both
\* scratch files and the artifact are unlinked, typer.Exit is raised.
CleanupFailed ==
    /\ lang_file' = Absent
    /\ context_file' = Absent
    /\ artifact' = Absent
    /\ pc' = "Failed"

\* Writing one pool path with the test `if content` left out.
WriteContextAlways(out, p) == Write(out, CtxRecord(p, read_file_content(fs[p])))

\* generate_tags_jsonl: what writing one pool path leaves in the artifact: its
\* record when read_file_content gave content, nothing otherwise.
WriteContext(out, p) ==
    IF Truthy(read_file_content(fs[p]))
    THEN Write(out, CtxRecord(p, read_file_content(fs[p])))
    ELSE out

\* The pool with nothing taken out.
RemoveNothing(S, p) == S

\* valid_context_path_objs.remove(match), for a match that is in the pool.
Remove(S, p) == S \ {p}

\* The priority pass takes the next candidate: its matches in the pool are
\* collected and sorted by depth.
PriorityFind ==
    /\ pc = "priority"
    /\ cidx <= Len(ordered_candidates)
    /\ LET found == {p \in pool : MatchesCandidate(p, ordered_candidates[cidx])}
       IN  /\ matches' \in SortedByDepth(found)
           /\ cidx' = IF found = {} THEN cidx + 1 ELSE cidx
           /\ pc' = IF found = {} THEN "priority" ELSE "priority_write"
    /\ UNCHANGED <<inputs, histVars, scopeVars, classVars, artifact,
                   ordered_candidates, pool, leftovers, tagVars, endVars>>

\* One iteration of `for match in matches`: the record is written when the
\* file has content, and the path leaves the pool; an exception of is_file,
\* or set.remove of a path that is not in the pool (KeyError), ends the run
\* through the except clause.
PriorityWrite ==
    /\ pc = "priority_write"
    /\ matches # <<>>
    /\ \E outcome \in IsFileOutcomes(fs[Head(matches)]) :
          IF outcome = "answer" /\ Head(matches) \in pool
          THEN /\ artifact' = WriteContext(artifact, Head(matches))
               /\ pool' = Remove(pool, Head(matches))
               /\ matches' = Tail(matches)
               /\ cidx' = IF Tail(matches) = <<>> THEN cidx + 1 ELSE cidx
               /\ pc' = IF Tail(matches) = <<>> THEN "priority" ELSE "priority_write"
               /\ UNCHANGED <<lang_file, context_file>>
          ELSE /\ CleanupFailed
               /\ UNCHANGED <<pool, matches, cidx>>
    /\ UNCHANGED <<inputs, histVars, scopeVars, todo, lang_file_count, ctx_file_count,
                   ordered_candidates, leftovers, tagVars, endVars>>

\* The candidates are exhausted: what is left of the pool is sorted by depth.
PriorityDone ==
    /\ pc = "priority"
    /\ cidx > Len(ordered_candidates)
    /\ leftovers' \in SortedByDepth(pool)
    /\ pc' = "leftovers"
    /\ UNCHANGED <<inputs, histVars, scopeVars, classVars, artifact,
                   ordered_candidates, pool, cidx, matches, tagVars, endVars>>

\* One iteration of `for leftover in leftovers`; an exception of is_file ends
\* the run through the except clause.
LeftoverWrite ==
    /\ pc = "leftovers"
    /\ leftovers # <<>>
    /\ \E outcome \in IsFileOutcomes(fs[Head(leftovers)]) :
          IF outcome = "answer"
          THEN /\ artifact' = WriteContext(artifact, Head(leftovers))
               /\ leftovers' = Tail(leftovers)
               /\ UNCHANGED <<pc, lang_file, context_file>>
          ELSE /\ CleanupFailed
               /\ UNCHANGED leftovers
    /\ UNCHANGED <<inputs, histVars, scopeVars, todo, lang_file_count, ctx_file_count,
                   ordered_candidates, pool, cidx, matches, tagVars, endVars>>

\* The context phase is over; run_ctags starts with an empty accumulator.
LeftoversDone ==
    /\ pc = "leftovers"
    /\ leftovers = <<>>
    /\ current_file_path' = ""
    /\ current_tags' = <<>>
    /\ tag_lines' = <<>>
    /\ pc' = "ctags"
    /\ UNCHANGED <<inputs, histVars, scopeVars, classVars, artifact, ctxVars, tag_menu, tag_budget,
                   endVars>>

(***************************************************************************)
(* run_ctags                                                               *)
(***************************************************************************)

\* run_ctags flushing the accumulator at every accepted line, not only when
\* the path changes.
AcceptLineFlushEach(acc, line) ==
    [path |-> line.path,
     tags |-> <<TagOf(line)>>,
     out  |-> IF acc.path # "" THEN Write(acc.out, TagRecord(acc.path, acc.tags))
              ELSE acc.out]

\* run_ctags: the accumulator and the artifact after one accepted line.
\* A change of path flushes the accumulated record, if there is one.
AcceptLine(acc, line) ==
    IF line.path # acc.path
    THEN [path |-> line.path,
          tags |-> <<TagOf(line)>>,
          out  |-> IF acc.path # "" THEN Write(acc.out, TagRecord(acc.path, acc.tags))
                   ELSE acc.out]
    ELSE [acc EXCEPT !.tags = Append(@, TagOf(line))]

\* run_ctags: the flush after the loop, `if current_file_path`.
FinalFlush(acc) ==
    IF acc.path # "" THEN Write(acc.out, TagRecord(acc.path, acc.tags)) ELSE acc.out

\* run_ctags reading the extractor's output while the leftovers are still
\* being written.
SymbolPhaseOpenEarly == pc \in {"leftovers", "ctags"}

\* generate_tags_jsonl calls run_ctags after the context phase's block: the
\* extractor's output is read only then.
SymbolPhaseOpen == pc = "ctags"

\* One iteration of `for line in process.stdout`: an unparseable line and a
\* filtered record are skipped, an accepted record is accumulated; a line
\* that parses to something other than an object has no .get, and the
\* AttributeError ends the run through `except Exception`.
CtagsLine ==
    /\ SymbolPhaseOpen
    /\ tag_budget > 0
    /\ \E line \in tag_menu :
          /\ tag_lines' = Append(tag_lines, line)
          /\ IF line.json = "nonobject"
             THEN /\ CleanupFailed
                  /\ UNCHANGED <<current_file_path, current_tags>>
             ELSE /\ LET acc == IF Accepted(line)
                                THEN AcceptLine([path |-> current_file_path,
                                                 tags |-> current_tags,
                                                 out |-> artifact], line)
                                ELSE [path |-> current_file_path,
                                      tags |-> current_tags, out |-> artifact]
                     IN  /\ current_file_path' = acc.path
                         /\ current_tags' = acc.tags
                         /\ artifact' = acc.out
                  /\ UNCHANGED <<pc, lang_file, context_file>>
    /\ tag_budget' = tag_budget - 1
    /\ UNCHANGED <<inputs, histVars, scopeVars, todo, lang_file_count, ctx_file_count, ctxVars,
                   tag_menu, endVars>>

\* The extractor's output ends: the last record is flushed, the artifact is
\* closed, success is set, the finally unlinks the two scratch files and the
\* output path is returned.
CtagsEnd ==
    /\ pc = "ctags"
    /\ artifact' = FinalFlush([path |-> current_file_path, tags |-> current_tags,
                               out |-> artifact])
    /\ success' = TRUE
    /\ lang_file' = Absent
    /\ context_file' = Absent
    /\ returned' = OutputPath
    /\ pc' = "Finalized"
    /\ UNCHANGED <<inputs, histVars, scopeVars, todo, lang_file_count, ctx_file_count, ctxVars,
                   tagVars>>

\* An exception or KeyboardInterrupt inside the try, in either phase.
Abort ==
    /\ pc \in {"try", "priority", "priority_write", "leftovers", "ctags"}
    /\ CleanupFailed
    /\ UNCHANGED <<inputs, histVars, scopeVars, todo, lang_file_count, ctx_file_count, ctxVars,
                   tagVars, endVars>>

(***************************************************************************)
(* Specifications                                                          *)
(***************************************************************************)

\* The repositories of the full-run specification.
RunRepos ==
    {<<"README.md", "LICENSE">>,
     <<"go.mod", "main.go", "README.md">>,
     <<"go.mod", "svc/go.sum", "svc/b.go", "docs/notes.md">>}

\* The language of the full-run specification.
RunLanguages == {"GO"}

\* The file states of the full-run specification.
RunFileStates == {TextFile(1), BinaryFile}

\* A full run of main: scope selection, classification, context phase and
\* symbol phase, with failures at any point.
Init ==
    /\ Start
    /\ language \in RunLanguages
    /\ repo \in RunRepos
    /\ fs \in [Range(repo) -> RunFileStates]
    /\ artifact \in {Absent, Stale}
    /\ tag_menu = RunTagMenu
    /\ tag_budget = RunTagLines

Next ==
    \/ SelectScopeNone
    \/ SelectScopeOne
    \/ SelectScopePrompt
    \/ ClassifyOpen
    \/ ClassifyLine
    \/ ClassifyClose
    \/ Uncaught
    \/ GenStart
    \/ EmitOpen
    \/ PriorityFind
    \/ PriorityWrite
    \/ PriorityDone
    \/ LeftoverWrite
    \/ LeftoversDone
    \/ CtagsLine
    \/ CtagsEnd
    \/ Abort

Spec == Init /\ [][Next]_vars

\* Scope selection and classification over every listing of at most MaxFiles
\* catalogue paths.
InitInventory ==
    /\ Start
    /\ language \in InventoryLanguages
    /\ repo \in Listings(Catalogue, MaxFiles)
    /\ fs = [p \in Range(repo) |-> TextFile(1)]
    /\ artifact = Absent
    /\ tag_menu = {}
    /\ tag_budget = 0

NextInventory ==
    \/ SelectScopeNone
    \/ SelectScopeOne
    \/ SelectScopePrompt
    \/ ClassifyOpen
    \/ ClassifyLine
    \/ ClassifyClose

SpecInventory == InitInventory /\ [][NextInventory]_vars

\* The repositories of the context-phase specification: the listings, in
\* sorted order, of at most n of the paths below.
MaxContextFiles == 3

ContextCatalogue ==
    {"go.mod", "svc/go.mod", "svc/GO.SUM", "docker-compose.yml",
     "deploy/docker-compose.yml", "README.md", "docs/notes.md"}

ContextRepos(lang) ==
    IF lang = "C/C++"
    THEN {<<"Makefile", "README.md", "makefile">>}
    ELSE {Sorted(S) : S \in {T \in SUBSET ContextCatalogue :
                                 Cardinality(T) <= MaxContextFiles}}

ContextLanguages == {"GO", "C/C++"}

\* Runs that do not fail, up to the end of the context phase.
InitContext ==
    /\ Start
    /\ language \in ContextLanguages
    /\ repo \in ContextRepos(language)
    /\ fs = [p \in Range(repo) |-> TextFile(1)]
    /\ artifact = Absent
    /\ tag_menu = {}
    /\ tag_budget = 0

NextContext ==
    \/ SelectScopeNone
    \/ SelectScopeOne
    \/ SelectScopePrompt
    \/ ClassifyOpen
    \/ ClassifyLine
    \/ ClassifyClose
    \/ GenStart
    \/ EmitOpen
    \/ PriorityFind
    \/ PriorityWrite
    \/ PriorityDone
    \/ LeftoverWrite
    \/ LeftoversDone

SpecContext == InitContext /\ [][NextContext]_vars

\* run_ctags alone: the state in which generate_tags_jsonl calls it, in a run
\* over the listing go.mod, a.go, b.go with scope ".", and every line the
\* extractor may print from there.
InitCtags ==
    /\ language = "GO"
    /\ repo = <<"go.mod", "a.go", "b.go">>
    /\ fs = [p \in Range(repo) |-> TextFile(1)]
    /\ pc = "ctags"
    /\ candidates = <<".">>
    /\ scopes = <<".">>
    /\ todo = <<>>
    /\ lang_file = [exists |-> TRUE, lines |-> <<"a.go", "", "b.go", "">>]
    /\ context_file = [exists |-> TRUE, lines |-> <<"go.mod", "">>]
    /\ lang_file_count = 2
    /\ ctx_file_count = 1
    /\ artifact = [exists |-> TRUE,
                   lines |-> <<CtxRecord("go.mod", [chars |-> 1, notice |-> ""])>>]
    /\ ordered_candidates =
          UNIVERSAL_CONTEXT_FILES \o <<"go.mod", "go.sum", "go.work", "main.go">>
    /\ pool = {}
    /\ cidx = Len(ordered_candidates) + 1
    /\ matches = <<>>
    /\ leftovers = <<>>
    /\ tag_menu = TagLines
    /\ tag_budget = MaxTagLines
    /\ tag_lines = <<>>
    /\ current_file_path = ""
    /\ current_tags = <<>>
    /\ success = FALSE
    /\ returned = ""
    /\ prompted = "no"
    /\ previous = NoRun

NextCtags ==
    \/ CtagsLine
    \/ CtagsEnd

SpecCtags == InitCtags /\ [][NextCtags]_vars


(***************************************************************************)
(* Two runs of the context phase on the same bucket                        *)
(***************************************************************************)

\* The repositories of the two-run specification.
RerunRepos ==
    {<<"README.md", "go.mod", "notes.md">>,
     <<"go.mod", "go.sum", "svc/go.mod">>}

\* The context phase has ended: its records are kept, and generate_tags_jsonl
\* is called once more, in a new process, on the same bucket files, language
\* and file contents.
Rerun ==
    /\ pc = "ctags"
    /\ ~previous.ran
    /\ previous' = [ran |-> TRUE, records |-> artifact.lines]
    /\ pc' = "classified"
    /\ ordered_candidates' = <<>>
    /\ pool' = {}
    /\ cidx' = 0
    /\ matches' = <<>>
    /\ leftovers' = <<>>
    /\ UNCHANGED <<inputs, prompted, scopeVars, classVars, artifact, tagVars, endVars>>

InitRerun ==
    /\ Start
    /\ language = "GO"
    /\ repo \in RerunRepos
    /\ fs = [p \in Range(repo) |-> TextFile(1)]
    /\ artifact = Absent
    /\ tag_menu = {}
    /\ tag_budget = 0

NextRerun ==
    \/ SelectScopeOne
    \/ SelectScopePrompt
    \/ ClassifyOpen
    \/ ClassifyLine
    \/ ClassifyClose
    \/ GenStart
    \/ EmitOpen
    \/ PriorityFind
    \/ PriorityWrite
    \/ PriorityDone
    \/ LeftoverWrite
    \/ LeftoversDone
    \/ Rerun

SpecRerun == InitRerun /\ [][NextRerun]_vars


(***************************************************************************)
(* The context phase over files in every state read_file_content meets     *)
(***************************************************************************)

\* How far from Limit the text lengths of the reading specification go.
ReadSpan == 1

\* The text lengths of the reading specification: empty, and around Limit.
ReadLengths == {0} \cup ((Limit - ReadSpan)..(Limit + ReadSpan))

\* The file states of the reading specification.
ReadFileStates ==
    {TextFile(n) : n \in ReadLengths}
    \cup {BinaryFile, MissingFile, UndecodableFile, UnopenableFile, InaccessibleFile}

\* A GO module with a manifest and two leftovers; the last file is a
\* readable text, empty or not.
InitRead ==
    /\ Start
    /\ language = "GO"
    /\ repo = <<"go.mod", "README.md", "docs/notes.md">>
    /\ \E f, g \in ReadFileStates, h \in {TextFile(0), TextFile(1)} :
          fs = [p \in Range(repo) |->
                   IF p = "go.mod" THEN f ELSE IF p = "README.md" THEN g ELSE h]
    /\ artifact = Absent
    /\ tag_menu = {}
    /\ tag_budget = 0

NextRead ==
    \/ SelectScopeOne
    \/ ClassifyOpen
    \/ ClassifyLine
    \/ ClassifyClose
    \/ GenStart
    \/ EmitOpen
    \/ PriorityFind
    \/ PriorityWrite
    \/ PriorityDone
    \/ LeftoverWrite
    \/ LeftoversDone

SpecRead == InitRead /\ [][NextRead]_vars


(***************************************************************************)
(* Scope selection, by select_scope of main.py and of ui/prompts.py        *)
(***************************************************************************)

\* The repositories of the scope specification: nested modules without and
\* with a module at the root, one module, none.
ScopeRepos ==
    {<<"a/b/go.mod", "a/go.mod", "c/go.mod">>,
     <<"a/b/go.mod", "a/go.mod", "go.mod">>,
     <<"a/go.mod", "a/main.go">>,
     <<"README.md">>}

InitScope ==
    /\ Start
    /\ language = "GO"
    /\ repo \in ScopeRepos
    /\ fs = [p \in Range(repo) |-> TextFile(1)]
    /\ artifact = Absent
    /\ tag_menu = {}
    /\ tag_budget = 0

NextScope ==
    \/ SelectScopeNone
    \/ SelectScopeOne
    \/ SelectScopePrompt
    \/ SelectScopePromptFiltered
    \/ ClassifyOpen
    \/ ClassifyLine
    \/ ClassifyClose

SpecScope == InitScope /\ [][NextScope]_vars

(***************************************************************************)
(* Properties                                                              *)
(***************************************************************************)

\* The states in which the run has ended.
Terminal == pc \in {"NoCandidates", "Crashed", "Failed", "Finalized"}

\* The paths written to a scratch file (its non-empty lines).
PathsOf(file) ==
    {file.lines[i] : i \in {j \in 1..Len(file.lines) : file.lines[j] # ""}}

\* The paths the classifier has read so far.
Streamed ==
    IF pc \in {"select_scope", "classify_open", "NoCandidates"} THEN {}
    ELSE LET full == ScopedStream(repo, scopes)
         IN  {full[i] : i \in 1..(Len(full) - Len(todo))}

\* The two kinds of record of the artifact.
IsCtx(r) == "type" \in DOMAIN r
IsSym(r) == "tags" \in DOMAIN r

\* The context records and the symbol records of the artifact, in order.
CtxRecords == SelectSeq(artifact.lines, IsCtx)
SymRecords == SelectSeq(artifact.lines, IsSym)

\* A name equals one of a set of names, ignoring letter case.
InIgnoringCase(name, names) == \E m \in names : Lower(name) = Lower(m)

\* C1: in every terminal state of a run, both scratch path-list files have
\* been deleted (stated as claimed; refuted by a failure outside the try).
C1_ScratchFilesDeleted ==
    Terminal => ~lang_file.exists /\ ~context_file.exists

\* C2: a failure in the context phase or the symbol phase ends the run in
\* Failed with no artifact at the output path and nothing returned, never in
\* an uncaught crash; a run whose two phases complete ends in Finalized with
\* the artifact present and its path returned.
C2_FailureLeavesNoArtifact ==
    /\ pc = "Failed" => ~artifact.exists /\ returned = "" /\ ~success
    /\ pc = "Crashed" => ordered_candidates = <<>>
    /\ pc = "Finalized" => artifact.exists /\ returned = OutputPath /\ success

\* C2 witness: the run failed in the symbol phase, after context records and
\* symbol lines had been handled, and the artifact is gone.
C2_Witness ==
    /\ pc = "Failed"
    /\ Len(tag_lines) = 2
    /\ ctx_file_count > 0
    /\ ~artifact.exists

\* C3: in the artifact every context record precedes every symbol record.
C3_ContextBeforeSymbols ==
    \A i, j \in 1..Len(artifact.lines) :
        IsSym(artifact.lines[i]) /\ IsCtx(artifact.lines[j]) => j < i

\* C3 witness: a finalized artifact holding context records of both passes
\* and a symbol record.
C3_Witness ==
    /\ pc = "Finalized"
    /\ Len(CtxRecords) >= 2
    /\ Len(SymRecords) >= 1

\* A line of the extractor that run_ctags is to accept: an object with a
\* path, a name and an allowed kind.
IsAcceptedLine(l) ==
    l.json = "object" /\ l.path # "" /\ l.name # "" /\ l.kind \in CTAGS_KINDS

\* The accepted lines read so far, in input order.
AcceptedLines == SelectSeq(tag_lines, IsAcceptedLine)

\* The accepted lines of path P are exactly positions a..b of acc.
IsRun(acc, P, a, b) ==
    /\ a <= b
    /\ \A k \in 1..Len(acc) : acc[k].path = P <=> (a <= k /\ k <= b)

\* C4: when the stream has ended and the accepted records of P form one
\* contiguous run followed by an accepted record of Q, with dropped or
\* malformed lines anywhere, exactly one record is emitted for P, holding the
\* run's "<kind> <name>" strings in input order, before a record for Q
\* (stated as claimed; refuted by a line that is JSON but not an object).
C4_ContiguousRunOneRecord ==
    Terminal =>
        \A a, b \in 1..Len(AcceptedLines) :
            LET acc == AcceptedLines
                P == acc[a].path
            IN  (IsRun(acc, P, a, b) /\ b < Len(acc)) =>
                    \E i \in 1..Len(SymRecords) :
                        /\ SymRecords[i].path = P
                        /\ SymRecords[i].tags =
                              [k \in 1..(b - a + 1) |->
                                  acc[a + k - 1].kind \o " " \o acc[a + k - 1].name]
                        /\ \A j \in 1..Len(SymRecords) :
                              SymRecords[j].path = P => j = i
                        /\ \E j \in (i + 1)..Len(SymRecords) :
                              SymRecords[j].path = acc[b + 1].path

\* Every symbol record is for a path with an accepted line and has tags.
SymRecordsJustified ==
    \A i \in 1..Len(SymRecords) :
        /\ SymRecords[i].tags # <<>>
        /\ \E k \in 1..Len(AcceptedLines) : AcceptedLines[k].path = SymRecords[i].path

\* C5 as claimed: for every symbol stream a record is emitted at most once
\* per path, only for paths with an accepted line, never with empty tags
\* (refuted by a stream that returns to a path it has left).
C5_AtMostOncePerPath ==
    /\ SymRecordsJustified
    /\ \A i, j \in 1..Len(SymRecords) :
          SymRecords[i].path = SymRecords[j].path => i = j

\* C5 amended: records are emitted only for paths with an accepted line and
\* never with empty tags; a path whose accepted lines are contiguous among
\* the accepted lines gets at most one record.
C5_AtMostOncePerContiguousPath ==
    /\ SymRecordsJustified
    /\ \A a, b \in 1..Len(AcceptedLines) :
          IsRun(AcceptedLines, AcceptedLines[a].path, a, b) =>
              \A i, j \in 1..Len(SymRecords) :
                  /\ SymRecords[i].path = AcceptedLines[a].path
                  /\ SymRecords[j].path = AcceptedLines[a].path
                  => i = j

\* C5 witness: the stream ended with a record of two tags for one path,
\* while another path had only rejected lines and got no record.
C5_Witness ==
    /\ pc = "Finalized"
    /\ \E i \in 1..Len(SymRecords) : Len(SymRecords[i].tags) = 2
    /\ \E k \in 1..Len(tag_lines) :
          /\ tag_lines[k].path # ""
          /\ \A i \in 1..Len(SymRecords) : SymRecords[i].path # tag_lines[k].path

\* The extension of a path is in the language's extension set, ignoring case.
HasLanguageExtension(p) == InIgnoringCase(Suffix(p), Extensions(language))

\* The name of a path is a universal context filename or a manifest of the
\* language, ignoring case.
HasTier1Name(p) ==
    InIgnoringCase(Name(p), Range(UNIVERSAL_CONTEXT_FILES) \cup Manifests(language))

\* The README rule and the .md rule.
HasReadmeName(p) == Contains(Lower(Name(p)), "readme")
HasMarkdownExtension(p) == Lower(Suffix(p)) = ".md"

\* C6: every streamed file whose extension is in the language's extension
\* set is in the language bucket and not in the context bucket, whatever
\* else its name matches.
C6_ExtensionRuleFirst ==
    \A p \in Streamed :
        HasLanguageExtension(p) =>
            p \in PathsOf(lang_file) /\ p \notin PathsOf(context_file)

\* C6 witness: classification ended with a file in the language bucket whose
\* name is also a manifest or a README.
C6_Witness ==
    /\ pc = "classified"
    /\ \E p \in Streamed :
          /\ HasLanguageExtension(p)
          /\ HasTier1Name(p) \/ HasReadmeName(p)
          /\ p \in PathsOf(lang_file)

C8_ManifestsInContextBucket ==
    \A p \in Streamed :
        (~HasLanguageExtension(p) /\ HasTier1Name(p)) => p \in PathsOf(context_file)

\* C9: the candidates are exactly the directories that directly contain a
\* file whose name is a manifest of the language ignoring case (stated as
\* claimed; refuted by a directory whose only manifest is Pipfile).
C9_CandidatesAreManifestDirectories ==
    pc # "select_scope" =>
        /\ Range(candidates) =
              {Parent(repo[i]) :
                  i \in {j \in 1..Len(repo) :
                            InIgnoringCase(Name(repo[j]), Manifests(language))}}
        /\ \A i, j \in 1..Len(candidates) : candidates[i] = candidates[j] => i = j

\* The position of the first candidate a path's name matches, 0 for none.
CandidateIndex(p) ==
    LET hits == {i \in 1..Len(ordered_candidates) :
                    Lower(Name(p)) = Lower(ordered_candidates[i])}
    IN  IF hits = {} THEN 0 ELSE CHOOSE i \in hits : \A k \in hits : i <= k

\* C10: the priority list is the universal context filenames followed by the
\* language's manifests, without duplicates, first occurrences kept; when
\* the context phase has ended the context records come candidate by
\* candidate in the list's order, and every record of a path matching a
\* candidate precedes every leftover.
C10_PriorityOrder ==
    pc \in {"try", "priority", "priority_write", "leftovers", "ctags"} =>
        /\ \A i \in 1..Len(UNIVERSAL_CONTEXT_FILES) :
              ordered_candidates[i] = UNIVERSAL_CONTEXT_FILES[i]
        /\ Range(ordered_candidates) =
              Range(UNIVERSAL_CONTEXT_FILES) \cup Manifests(language)
        /\ \A i, j \in 1..Len(ordered_candidates) :
              ordered_candidates[i] = ordered_candidates[j] => i = j
        /\ pc = "ctags" =>
              \A i, j \in 1..Len(CtxRecords) :
                  i < j =>
                      LET ci == CandidateIndex(CtxRecords[i].path)
                          cj == CandidateIndex(CtxRecords[j].path)
                      IN  /\ ~(ci = 0 /\ cj > 0)
                          /\ (ci > 0 /\ cj > 0) => ci <= cj

\* C10 witness: the context phase ended with records of two different
\* candidates followed by a leftover record.
C10_Witness ==
    /\ pc = "ctags"
    /\ Len(CtxRecords) = 3
    /\ CandidateIndex(CtxRecords[1].path) > 0
    /\ CandidateIndex(CtxRecords[2].path) > CandidateIndex(CtxRecords[1].path)
    /\ CandidateIndex(CtxRecords[3].path) = 0

\* C11: of two context records whose paths match the same priority candidate,
\* or are both leftovers, the one whose path has fewer segments comes first:
\* a record that follows a record of a deeper path belongs to another
\* candidate, or to the other pass.
C11_ShallowerFirst ==
    pc = "ctags" =>
        \A i, j \in 1..Len(CtxRecords) :
            /\ i < j
            /\ Depth(CtxRecords[j].path) < Depth(CtxRecords[i].path)
            => CandidateIndex(CtxRecords[i].path) # CandidateIndex(CtxRecords[j].path)

\* C11 witness: the context phase ended with the records of two files of one
\* candidate name at different depths.
C11_Witness ==
    /\ pc = "ctags"
    /\ \E i, j \in 1..Len(CtxRecords) :
          /\ i < j
          /\ CandidateIndex(CtxRecords[i].path) > 0
          /\ CandidateIndex(CtxRecords[i].path) = CandidateIndex(CtxRecords[j].path)
          /\ Depth(CtxRecords[i].path) < Depth(CtxRecords[j].path)

\* C12: a second run of the context phase on the same bucket file, language
\* and file contents writes the same sequence of context records as the
\* first (stated as claimed; refuted by two leftovers of equal depth and by
\* two manifests of the language).
C12_SameOrderOnRerun ==
    (previous.ran /\ pc = "ctags") => CtxRecords = previous.records

\* C13: the artifact never holds two context records of one path, through
\* the priority pass, a later candidate that differs only in letter case and
\* the leftovers pass, and the removal from the pool never fails the run.
C13_OneContextRecordPerPath ==
    /\ \A i, j \in 1..Len(CtxRecords) :
          CtxRecords[i].path = CtxRecords[j].path => i = j
    /\ pc # "Failed"

\* C13 witness: the context phase ended for a bucket whose files Makefile and
\* makefile match both of the candidates "Makefile" and "makefile", with one
\* record each and a leftover record.
C13_Witness ==
    /\ pc = "ctags"
    /\ {"Makefile", "makefile"} \subseteq Range(ordered_candidates)
    /\ \E i, j \in 1..Len(CtxRecords) :
          CtxRecords[i].path = "Makefile" /\ CtxRecords[j].path = "makefile"
    /\ Len(CtxRecords) = 3

\* C14: the content of every context record is the file's first Limit
\* characters followed by the notice naming 100000 when the file has more
\* than Limit characters, and the whole file with no notice when it has
\* Limit characters or fewer; no read takes more than Limit + 1 characters.
C14_TruncatedAtLimit ==
    /\ \A i \in 1..Len(CtxRecords) :
          LET r == CtxRecords[i]
              f == fs[r.path]
          IN  /\ f.len > Limit =>
                    /\ r.content.chars = Limit
                    /\ r.content.notice = Notice(100000)
              /\ f.len <= Limit =>
                    /\ r.content.chars = f.len
                    /\ r.content.notice = ""
    /\ \A p \in Range(repo) : CharsRead(fs[p]) <= Limit + 1

\* C14 witness: the context phase ended with the record of a file of more
\* than Limit characters, cut, and the record of a file of exactly Limit
\* characters, whole.
C14_Witness ==
    /\ pc = "ctags"
    /\ \E i, j \in 1..Len(CtxRecords) :
          /\ fs[CtxRecords[i].path].len = Limit + 1
          /\ CtxRecords[i].content.notice # ""
          /\ fs[CtxRecords[j].path].len = Limit
          /\ CtxRecords[j].content = [chars |-> Limit, notice |-> ""]

\* A file read_file_content is to skip: binary, undecodable, missing, or
\* one that cannot be opened.
Skipped(f) == f.kind # "text"

\* C15: a context file that is binary, undecodable, missing or cannot be
\* opened gets no record and never fails the run, and when the context phase
\* has ended every readable file with content has its record (stated as
\* claimed; refuted by a file whose directory cannot be searched).
C15_UnreadableFilesSkipped ==
    /\ pc # "Failed"
    /\ \A i \in 1..Len(CtxRecords) : ~Skipped(fs[CtxRecords[i].path])
    /\ pc = "ctags" =>
          \A p \in PathsOf(context_file) :
              (fs[p].kind = "text" /\ fs[p].len > 0) =>
                  \E i \in 1..Len(CtxRecords) : CtxRecords[i].path = p

\* A line that is a valid symbol record: a JSON object carrying a path, a
\* kind and a name.
IsValidRecord(l) == l.json = "object" /\ l.path # "" /\ l.kind # "" /\ l.name # ""

RECURSIVE RunCtagsOn(_, _)
\* What run_ctags leaves in the artifact for a stream of valid symbol
\* records, from the accumulator acc on.
RunCtagsOn(acc, lines) ==
    IF lines = <<>> THEN FinalFlush(acc)
    ELSE RunCtagsOn(IF Accepted(Head(lines)) THEN AcceptLine(acc, Head(lines)) ELSE acc,
                    Tail(lines))

\* C16: whatever lines that are not valid symbol records the stream holds,
\* the symbol phase completes and the artifact is what the same stream
\* without those lines gives (stated as claimed; refuted by a line that is
\* JSON but not an object).
C16_MalformedLinesSkipped ==
    Terminal =>
        /\ pc = "Finalized"
        /\ artifact = RunCtagsOn([path |-> "", tags |-> <<>>,
                                  out |-> [exists |-> TRUE, lines |-> CtxRecords]],
                                 SelectSeq(tag_lines, IsValidRecord))

\* One entry of a scope is an ancestor directory of another.
HasAncestorPair(scope) ==
    \E i, j \in 1..Len(scope) :
        /\ i # j
        /\ Len(scope[j]) > Len(scope[i])
        /\ SubSeq(scope[j], 1, Len(scope[i]) + 1) = scope[i] \o "/"

\* C17: when the prompt's answer holds neither "select all" nor the root
\* path, the scope select_scope returns has no entry that is an ancestor
\* directory of another entry (stated as claimed; refuted by an answer
\* holding a directory and its parent).
C17_NoAncestorPairInScope ==
    (prompted = "some" /\ "." \notin Range(scopes)) => ~HasAncestorPair(scopes)

\* C18: when the prompt's answer holds "select all" the scope is the root
\* path alone, and a scope that holds the root path holds nothing else
\* (stated as claimed; refuted by "select all" over several candidates).
C18_SelectAllIsRootAlone ==
    /\ prompted = "all" => scopes = <<".">>
    /\ "." \in Range(scopes) => scopes = <<".">>

\* C19: the candidates select_scope leaves with are the directories of the
\* listing's manifests; when there is none, the run leaves scope selection
\* only by the "no candidates" exit (or by an interrupt nothing catches): no
\* scratch file exists, the artifact is what it was before the run, nothing
\* is returned and no prompt was shown; with exactly one candidate no prompt
\* was shown and the scope is that single path.
C19_NoCandidatesStopsEarly ==
    pc \notin {"select_scope", "Crashed"} =>
        /\ pc \in {"NoCandidates", "classify_open"} =>
              candidates = Sorted(FocusedInventory(language, repo))
        /\ candidates = <<>> =>
              /\ pc = "NoCandidates"
              /\ lang_file = Absent
              /\ context_file = Absent
              /\ artifact \in {Absent, Stale}
              /\ returned = ""
              /\ prompted = "no"
        /\ Len(candidates) = 1 =>
              /\ prompted = "no"
              /\ scopes = candidates

\* The run ended with "no candidates" on a listing without a manifest, an
\* earlier artifact still in place.
C19_Witness ==
    /\ pc = "NoCandidates"
    /\ FocusedInventory(language, repo) = {}
    /\ repo # <<>>
    /\ artifact = Stale

RECURSIVE TagsEmittedFor(_, _)
\* The tags of the records of path P among recs, concatenated in order.
TagsEmittedFor(recs, P) ==
    IF recs = <<>> THEN <<>>
    ELSE (IF Head(recs).path = P THEN Head(recs).tags ELSE <<>>)
             \o TagsEmittedFor(Tail(recs), P)

RECURSIVE TagsAcceptedFor(_, _)
\* The "<kind> <name>" strings of the lines of path P among acc, in order.
TagsAcceptedFor(acc, P) ==
    IF acc = <<>> THEN <<>>
    ELSE (IF Head(acc).path = P THEN <<TagOf(Head(acc))>> ELSE <<>>)
             \o TagsAcceptedFor(Tail(acc), P)

\* The number of maximal contiguous runs of path P in acc.
RunsOf(acc, P) ==
    Cardinality({k \in 1..Len(acc) :
                    acc[k].path = P /\ (k = 1 \/ acc[k - 1].path # P)})

\* C20: when the run has ended, for every path P the tags of P's symbol
\* records, concatenated in output order, are P's accepted "<kind> <name>"
\* strings in input order, P has as many records as maximal contiguous runs
\* among the accepted lines, and no two consecutive symbol records have the
\* same path (stated as claimed for every stream; refuted by a stream
\* holding a line that is JSON but not an object).
C20_NoSymbolLost ==
    Terminal =>
        /\ \A P \in {AcceptedLines[k].path : k \in 1..Len(AcceptedLines)}
                    \cup {SymRecords[i].path : i \in 1..Len(SymRecords)} :
              /\ TagsEmittedFor(SymRecords, P) = TagsAcceptedFor(AcceptedLines, P)
              /\ Cardinality({i \in 1..Len(SymRecords) : SymRecords[i].path = P})
                     = RunsOf(AcceptedLines, P)
        /\ \A i \in 1..(Len(SymRecords) - 1) :
              SymRecords[i].path # SymRecords[i + 1].path

\* The context-bucket files that are readable, non-binary text.
ReadableContextFiles == {p \in PathsOf(context_file) : fs[p].kind = "text"}

\* C21: every context record in the artifact has non-empty content and a
\* readable text of zero characters has no record; once the priority pass is
\* over, no path matching a candidate is left in the pool or among the
\* leftovers, empty files included, so none is read a second time.
C21_NoEmptyContextRecord ==
    /\ \A i \in 1..Len(CtxRecords) :
          /\ CtxRecords[i].content # EmptyContent
          /\ CtxRecords[i].content.chars > 0
          /\ fs[CtxRecords[i].path] # TextFile(0)
    /\ pc \in {"leftovers", "ctags"} =>
          \A p \in pool \cup Range(leftovers) :
              \A c \in 1..Len(ordered_candidates) :
                  ~MatchesCandidate(p, ordered_candidates[c])

\* C21 witness: the context phase ended over three readable texts, the
\* manifest (priority pass) and the leftover both empty: one record, fewer
\* than the readable, non-binary context files.
C21_Witness ==
    /\ pc = "ctags"
    /\ fs["go.mod"] = TextFile(0)
    /\ fs["docs/notes.md"] = TextFile(0)
    /\ Cardinality(ReadableContextFiles) = 3
    /\ Len(CtxRecords) = 1
    /\ CtxRecords[1].path = "README.md"
    /\ "go.mod" \notin pool

====
